---- MODULE Spec2Model ----
(***************************************************************************)
(* PMCC Analyzer (src/app.py): a Streamlit script.  Every UI event runs   *)
(* the whole script once against st.session_state; the model has one      *)
(* action per event and each action is one complete script run.           *)
(*                                                                         *)
(* Numbers.  Money (spot, strikes, premiums) is an integer number of      *)
(* dollars and arithmetic is exact; the rounding of the binary floats of  *)
(* the program is not modelled.  A delta is an integer number of          *)
(* hundredths (0.80 is 80).  An expiry is identified with the number of   *)
(* days the program computes for it, (expiry - today).days.  ROI is the   *)
(* exact fraction num/den, in percent.                                    *)
(* The display formatting of the report (f-strings), the chart drawing    *)
(* and the calendar links of lines 452-468 write no state and are left    *)
(* out; the numbers they are given are kept.                              *)
(***************************************************************************)
EXTENDS Integers, Sequences, FiniteSets, TLC

(***************************************************************************)
(* Values that are not numbers.  They lie outside every range of the      *)
(* model and are never used in arithmetic.                                 *)
(***************************************************************************)
NaN == -1000001
Absent == -1000002
None == -1000003

\* Python float comparisons: every comparison with NaN is False.
PyGt(a, b) == a # NaN /\ b # NaN /\ a > b
PyGe(a, b) == a # NaN /\ b # NaN /\ a >= b
PyLe(a, b) == a # NaN /\ b # NaN /\ a <= b
PyLt(a, b) == a # NaN /\ b # NaN /\ a < b

\* Python float arithmetic: NaN is absorbing.
FAdd(a, b) == IF a = NaN \/ b = NaN THEN NaN ELSE a + b
FSub(a, b) == IF a = NaN \/ b = NaN THEN NaN ELSE a - b
FNeg(a) == IF a = NaN THEN NaN ELSE 0 - a
FMul(a, k) == IF a = NaN THEN NaN ELSE a * k

\* Python's builtin max(0, x): x when x > 0, else 0 (so max(0, nan) is 0).
PyMax0(x) == IF PyGt(x, 0) THEN x ELSE 0

\* numpy.maximum(0, x): NaN propagates.
NpMax0(x) == IF x = NaN THEN NaN ELSE IF x > 0 THEN x ELSE 0

\* dict / Series lookup with a default: row.get(field, 0).
GetOr0(v) == IF v = Absent THEN 0 ELSE v

(***************************************************************************)
(* Premium resolution (get_price, get_bid): lines 336-343.                 *)
(* A quote row is [strike, ask, bid, lastPrice, impliedVolatility]; a     *)
(* field is a number, NaN or Absent.                                      *)
(***************************************************************************)
get_price(row) ==
    LET val == IF row.ask # Absent THEN row.ask ELSE 0
    IN  IF val = NaN \/ PyLe(val, 0) THEN GetOr0(row.lastPrice) ELSE val

get_bid(row) ==
    LET val == IF row.bid # Absent THEN row.bid ELSE 0
    IN  IF val = NaN \/ PyLe(val, 0) THEN GetOr0(row.lastPrice) ELSE val

(***************************************************************************)
(* Greeks (calculate_greeks): lines 41-53.  T is days / 365.0, so T <= 0  *)
(* exactly when days <= 0.  The closed form norm.cdf(d1) is not computed: *)
(* phi stands for its value, which the action draws from a set of deltas. *)
(* A NaN sigma passes the guard (NaN <= 0 is False) and gives a NaN delta.*)
(* Theta is returned beside delta and is never read.                      *)
(***************************************************************************)
calculate_greeks(T_days, sigma, phi) ==
    IF T_days <= 0 \/ PyLe(sigma, 0) THEN None
    ELSE IF sigma = NaN THEN NaN
    ELSE phi

(***************************************************************************)
(* Coach comments (generate_coach_comments): lines 55-91.                  *)
(* Comparing None with a float raises TypeError.                           *)
(***************************************************************************)
CoachRaises(delta_l, delta_s) == delta_l = None \/ delta_s = None

LongDeltaBand(delta_l) ==
    IF PyGe(delta_l, 90) THEN "excellent"
    ELSE IF PyGe(delta_l, 80) THEN "good"
    ELSE IF PyGe(delta_l, 70) THEN "caution"
    ELSE "reject"

LongDaysTier(days_l) ==
    IF days_l > 365 THEN "year_plus"
    ELSE IF days_l > 180 THEN "half_year_plus"
    ELSE "short"

ShortDeltaBand(delta_s) ==
    IF PyGt(delta_s, 60) THEN "reject"
    ELSE IF PyGt(delta_s, 50) THEN "caution"
    ELSE IF PyLe(20, delta_s) /\ PyLe(delta_s, 45) THEN "ideal"
    ELSE "far_otm"

CoachScore(delta_l, delta_s) ==
    IF PyGe(delta_l, 80) /\ PyLe(20, delta_s) /\ PyLe(delta_s, 50) THEN "S"
    ELSE IF PyGe(delta_l, 75) THEN "A"
    ELSE "C"

\* The texts show the deltas and int(days_l); they are kept beside the bands.
generate_coach_comments(delta_l, days_l, delta_s, days_s) ==
    [delta_l |-> delta_l, days_l |-> days_l, delta_s |-> delta_s,
     long_delta |-> LongDeltaBand(delta_l),
     long_days |-> LongDaysTier(days_l),
     short_delta |-> ShortDeltaBand(delta_s),
     score |-> CoachScore(delta_l, delta_s)]

\* Lines 390-393: the rank shown for a score.
ScoreIcon(score) ==
    IF score = "S" THEN "S-rank" ELSE IF score = "A" THEN "A-rank" ELSE "B-rank"

(***************************************************************************)
(* Strike lists and default strike selection: lines 304-311.              *)
(***************************************************************************)
SetMin(S) == CHOOSE m \in S : \A x \in S : m <= x

RECURSIVE SortedSeq(_)
SortedSeq(S) ==
    IF S = {} THEN <<>>
    ELSE <<SetMin(S)>> \o SortedSeq(S \ {SetMin(S)})

\* sorted(chain['strike'].unique())
StrikesOf(chain) == SortedSeq({chain[i].strike : i \in 1..Len(chain)})

Abs(x) == IF x < 0 THEN 0 - x ELSE x

\* The key abs(x - target) of line 307-311, times 100 so that the targets
\* price * 0.60 and price * 1.15 stay integers: target100 is 100 * target.
KeyDist(x, target100) == Abs(100 * x - target100)

\* Python's min(seq, key=...): a left-to-right scan that replaces the best
\* element only by one with a strictly smaller key.
RECURSIVE MinScan(_, _, _, _)
MinScan(seq, i, best, target100) ==
    IF i > Len(seq) THEN best
    ELSE MinScan(seq, i + 1,
                 IF KeyDist(seq[i], target100) < KeyDist(best, target100)
                 THEN seq[i] ELSE best,
                 target100)

\* A scan that also replaces the best element on an equal key.
RECURSIVE MinScanLast(_, _, _, _)
MinScanLast(seq, i, best, target100) ==
    IF i > Len(seq) THEN best
    ELSE MinScanLast(seq, i + 1,
                     IF KeyDist(seq[i], target100) <= KeyDist(best, target100)
                     THEN seq[i] ELSE best,
                     target100)

NearestStrikeLastOnTies(strikes, target100) ==
    MinScanLast(strikes, 2, strikes[1], target100)

\* min(strikes, key=lambda x: abs(x - target)) for a non-empty list; on an
\* empty list min() raises ValueError (see StrikeLoading).
NearestStrike(strikes, target100) == MinScan(strikes, 2, strikes[1], target100)

LongTarget100(price) == price * 60
ShortTarget100(price) == price * 115

(***************************************************************************)
(* Analysis report: lines 380-450.                                         *)
(***************************************************************************)
ContractMultiplier == 100
CurveSamples == 100
\* Curve spots and profits are kept as multiples of 1 / CurveDen dollars, the
\* step of np.linspace(price * 0.7, price * 1.3, CurveSamples) being
\* price * 0.6 / (CurveSamples - 1).
CurveDen == 10 * (CurveSamples - 1)

net_debit_of(prem_l, prem_s) == FSub(prem_l, prem_s)
total_cost_of(net_debit) == FMul(net_debit, ContractMultiplier)
\* A variant that subtracts the net debit instead of adding it.
breakeven_of_Subtracting(long_strike, net_debit) == FSub(long_strike, net_debit)

breakeven_of(long_strike, net_debit) == FAdd(long_strike, net_debit)

\* Lines 417-419.
RoiOf(total, total_cost) ==
    IF PyGt(total_cost, 0)
    THEN [num |-> FMul(total, 100), den |-> total_cost]
    ELSE [num |-> 0, den |-> 1]

\* A variant that forgets the obligation of the short call.
ScenarioRow_LongLegOnly(name, p, long_strike, short_strike, net_debit, total_cost) ==
    LET val_l == PyMax0(FSub(p, long_strike))
        total == FAdd(val_l, FNeg(net_debit))
    IN  [name |-> name, p |-> p, val_l |-> val_l, val_s |-> 0,
         total |-> total, roi |-> RoiOf(total, total_cost)]

\* Lines 410-427: one row of the scenario table at spot p.
ScenarioRow(name, p, long_strike, short_strike, net_debit, total_cost) ==
    LET val_l == PyMax0(FSub(p, long_strike))
        val_s == PyMax0(FSub(p, short_strike))
        cost == FNeg(net_debit)
        total == FAdd(FSub(val_l, val_s), cost)
    IN  [name |-> name, p |-> p, val_l |-> val_l, val_s |-> val_s,
         total |-> total, roi |-> RoiOf(total, total_cost)]

\* Lines 437-440: sample i (0-based) of the payoff curve, in 1/CurveDen dollars.
CurveSpot(price, i) == 7 * price * (CurveSamples - 1) + 6 * price * i

CurvePoint(price, long_strike, short_strike, net_debit, i) ==
    LET spot == CurveSpot(price, i)
        val_l == NpMax0(spot - long_strike * CurveDen)
        val_s == NpMax0(spot - short_strike * CurveDen)
    IN  [spot |-> spot,
         profit |-> FSub(val_l - val_s, FMul(net_debit, CurveDen))]

NoReport == [kind |-> "none"]

\* Lines 369-471.  The coach box is built first (line 388-389); a TypeError
\* raised there is caught at line 470 and nothing after it is produced.
AnalysisReport(manual, price, long_strike, prem_l, short_strike, prem_s, delta_l, delta_s, T_l_days, T_s_days) ==
    LET net_debit == net_debit_of(prem_l, prem_s)
        total_cost == total_cost_of(net_debit)
        breakeven == breakeven_of(long_strike, net_debit)
        coached == ~manual /\ delta_l # None
        comments == generate_coach_comments(delta_l, T_l_days, delta_s, T_s_days)
    IN  IF coached /\ CoachRaises(delta_l, delta_s)
        THEN [kind |-> "calc_error", error |-> "TypeError"]
        ELSE [kind |-> "report",
              price |-> price, long_strike |-> long_strike,
              short_strike |-> short_strike,
              prem_l |-> prem_l, prem_s |-> prem_s,
              net_debit |-> net_debit,
              total_cost |-> total_cost,
              breakeven |-> breakeven,
              coach |-> IF coached
                        THEN <<[comments |-> comments,
                                score_icon |-> ScoreIcon(comments.score)]>>
                        ELSE <<>>,
              table |-> <<ScenarioRow("current", price, long_strike,
                                      short_strike, net_debit, total_cost),
                          ScenarioRow("breakeven", breakeven, long_strike,
                                      short_strike, net_debit, total_cost),
                          ScenarioRow("short_strike", short_strike, long_strike,
                                      short_strike, net_debit, total_cost)>>,
              curve |-> [i \in 1..CurveSamples |->
                            CurvePoint(price, long_strike, short_strike,
                                       net_debit, i - 1)]]

(***************************************************************************)
(* Session state (st.session_state), widget state and the output of the   *)
(* last script run.  An optional value is <<>> (None / key not present)   *)
(* or <<v>>.                                                               *)
(***************************************************************************)
VARIABLES
    manual_mode,        \* st.session_state['manual_mode']
    ticker_input_val,   \* key of the ticker text input
    ticker_data,        \* <<[price, exps, ticker]>>
    strikes_data,       \* <<[long_exp, short_exp, strikes_l, strikes_s, def_l, def_s]>>
    load_trigger,       \* <<[ticker, long_exp, short_exp, long_strike, short_strike]>>
    chain_cache,        \* [l |-> <<chain>>, s |-> <<chain>>]
    long_strike_val,    \* Absent until line 361 has run
    short_strike_val,
    prem_l_val,
    prem_s_val,
    m_state,            \* <<[m_ticker, m_price, m_l_strike, m_l_prem, m_s_strike, m_s_prem]>>
    w_long_exp,         \* state of the unkeyed selectboxes: <<[opts, idx, val]>>
    w_short_exp,
    w_long_strike,
    w_short_strike,
    status,             \* how the last run ended: "done", "rerun" (st.rerun), or
                        \* the exception nothing caught
    screen,             \* the sections the last run rendered
    messages,           \* st.error / st.warning / st.success of the last run
    sheet_write,        \* <<row>> written by sheet.update in the last run
    report              \* section 6 of the last run

vars == <<manual_mode, ticker_input_val, ticker_data, strikes_data,
          load_trigger, chain_cache, long_strike_val, short_strike_val,
          prem_l_val, prem_s_val, m_state, w_long_exp, w_short_exp,
          w_long_strike, w_short_strike, status, screen, messages,
          sheet_write, report>>

DefaultTicker == "NVDA"

\* The value= defaults of the manual-mode inputs, lines 238-251.
ManualDefaults ==
    [m_ticker |-> DefaultTicker, m_price |-> 100, m_l_strike |-> 80,
     m_l_prem |-> 25, m_s_strike |-> 130, m_s_prem |-> 5]

\* The session as a record.
Session ==
    [manual_mode |-> manual_mode, ticker_input_val |-> ticker_input_val,
     ticker_data |-> ticker_data, strikes_data |-> strikes_data,
     load_trigger |-> load_trigger, chain_cache |-> chain_cache,
     long_strike_val |-> long_strike_val,
     short_strike_val |-> short_strike_val,
     prem_l_val |-> prem_l_val, prem_s_val |-> prem_s_val,
     m_state |-> m_state, w_long_exp |-> w_long_exp,
     w_short_exp |-> w_short_exp, w_long_strike |-> w_long_strike,
     w_short_strike |-> w_short_strike,
     status |-> status, screen |-> screen, messages |-> messages,
     sheet_write |-> sheet_write, report |-> report]

\* The locals of lines 221-232 (and the two selected expiries).
Locals ==
    [price |-> 0, long_strike |-> 0, short_strike |-> 0,
     prem_l |-> 0, prem_s |-> 0, is_ready |-> FALSE,
     delta_l |-> None, delta_s |-> None, T_l_days |-> 0, T_s_days |-> 0,
     long_exp |-> 0, short_exp |-> 0]

\* The script's view of a run that starts in session s: the session, the
\* outputs cleared, and the locals.
RunStart(s) ==
    [f \in DOMAIN s \cup DOMAIN Locals |->
        IF f \in DOMAIN Locals THEN Locals[f]
        ELSE IF f = "status" THEN "running"
        ELSE IF f = "screen" THEN {}
        ELSE IF f = "messages" THEN {}
        ELSE IF f = "sheet_write" THEN <<>>
        ELSE IF f = "report" THEN NoReport
        ELSE s[f]]

Msg(r, m) == [r EXCEPT !.messages = @ \cup {m}]
Shown(r, section) == [r EXCEPT !.screen = @ \cup {section}]

\* An event that is no button: the browser sends the new widget value and the
\* script reads it from the widget's state.
ApplyEvent(r, ev) ==
    IF ev.kind = "toggle" THEN [r EXCEPT !.manual_mode = ~@]
    ELSE IF ev.kind = "edit_ticker" THEN [r EXCEPT !.ticker_input_val = ev.arg]
    ELSE IF ev.kind = "edit_manual" THEN [r EXCEPT !.m_state = <<ev.arg>>]
    ELSE IF ev.kind = "select_long_exp" THEN [r EXCEPT !.w_long_exp[1].val = ev.arg]
    ELSE IF ev.kind = "select_short_exp" THEN [r EXCEPT !.w_short_exp[1].val = ev.arg]
    ELSE IF ev.kind = "select_long_strike" THEN [r EXCEPT !.w_long_strike[1].val = ev.arg]
    ELSE IF ev.kind = "select_short_strike" THEN [r EXCEPT !.w_short_strike[1].val = ev.arg]
    ELSE r

\* st.selectbox(label, opts, index=idx) without a key: the widget keeps its
\* value while label, options and index are the same as in the run before,
\* and starts again from opts[idx] otherwise.
Selectbox(w, opts, idx) ==
    IF w # <<>> /\ w[1].opts = opts /\ w[1].idx = idx THEN w
    ELSE <<[opts |-> opts, idx |-> idx, val |-> opts[idx]]>>

\* list.index(x): position of the first x.
IndexOf(seq, x) == CHOOSE i \in 1..Len(seq) : seq[i] = x /\ \A j \in 1..(i - 1) : seq[j] # x
Contains(seq, x) == \E i \in 1..Len(seq) : seq[i] = x

(***************************************************************************)
(* Sidebar: lines 163-216.                                                 *)
(***************************************************************************)
\* Lines 173-189.  e.sheet is the answer of the sheet: no connection, an
\* exception of sheet.update, or success.  With ticker data but no strikes data, line 183 subscripts
\* None: a TypeError nothing catches.
CloudSave(r, e) ==
    IF e.sheet.kind = "conn_error" THEN Msg(r, "sheet_error")
    ELSE
    LET manual_row ==
            [slot |-> e.sheet.slot, type |-> "manual",
             ticker |-> r.m_state[1].m_ticker, price |-> r.m_state[1].m_price,
             long_strike |-> r.m_state[1].m_l_strike,
             prem_l |-> r.m_state[1].m_l_prem,
             short_strike |-> r.m_state[1].m_s_strike,
             prem_s |-> r.m_state[1].m_s_prem,
             long_exp |-> Absent, short_exp |-> Absent]
        auto_row ==
            [slot |-> e.sheet.slot, type |-> "auto",
             ticker |-> r.ticker_data[1].ticker,
             price |-> r.ticker_data[1].price,
             long_strike |-> GetOr0(r.long_strike_val),
             prem_l |-> GetOr0(r.prem_l_val),
             short_strike |-> GetOr0(r.short_strike_val),
             prem_s |-> GetOr0(r.prem_s_val),
             long_exp |-> r.strikes_data[1].long_exp,
             short_exp |-> r.strikes_data[1].short_exp]
        Update(row) ==
            IF e.sheet.kind = "ok"
            THEN Msg([r EXCEPT !.sheet_write = <<row>>], "saved")
            ELSE Msg(r, "sheet_error")
    IN  IF r.manual_mode /\ r.m_state # <<>> THEN Update(manual_row)
        ELSE IF r.ticker_data # <<>>
        THEN IF r.strikes_data = <<>>
             THEN [r EXCEPT !.status = "TypeError"]
             ELSE Update(auto_row)
        ELSE Msg(r, "no_data")

\* Lines 191-216.  e.sheet is the answer of the sheet: no connection, an
\* exception of row_values or of float(vals[4]), a row of fewer than 4 cells,
\* a manual row, an auto row, or an auto row cut before its expiry cells
\* (IndexError at line 214, after lines 212-213 have run).
CloudLoad(r, e) ==
    LET row == e.sheet
    IN  IF row.kind \in {"conn_error", "exception"} THEN Msg(r, "sheet_error")
        ELSE IF row.kind = "short" THEN Msg(r, "slot_empty")
        ELSE IF row.kind = "manual"
        THEN [r EXCEPT !.manual_mode = TRUE,
                       !.m_state = <<row.m>>,
                       !.status = "rerun"]
        ELSE IF row.kind = "auto_truncated"
        THEN Msg([r EXCEPT !.manual_mode = FALSE,
                           !.ticker_input_val = row.ticker], "sheet_error")
        ELSE [r EXCEPT !.manual_mode = FALSE,
                       !.ticker_input_val = row.ticker,
                       !.load_trigger = <<[ticker |-> row.ticker,
                                           long_exp |-> row.long_exp,
                                           short_exp |-> row.short_exp,
                                           long_strike |-> row.long_strike,
                                           short_strike |-> row.short_strike]>>,
                       !.status = "rerun"]

Sidebar(r, ev, e) ==
    IF ev.kind = "save" THEN CloudSave(r, e)
    ELSE IF ev.kind = "load" THEN CloudLoad(r, e)
    ELSE r

(***************************************************************************)
(* Main section, manual mode: lines 234-252.                               *)
(***************************************************************************)
ManualBranch(r, ev) ==
    LET m == IF r.m_state = <<>> THEN ManualDefaults ELSE r.m_state[1]
    IN  [Shown(r, "manual") EXCEPT
            !.m_state = <<m>>,
            !.price = m.m_price,
            !.long_strike = m.m_l_strike, !.prem_l = m.m_l_prem,
            !.short_strike = m.m_s_strike, !.prem_s = m.m_s_prem,
            !.is_ready = (ev.kind = "analyze_manual")]

(***************************************************************************)
(* Main section, auto mode: lines 255-364.                                 *)
(***************************************************************************)
\* Lines 259-268.  e.ticker is what fetch_ticker_info returns.
TickerFetch(r, ev, e) ==
    LET fetch_pressed == ev.kind = "fetch"
    IN  IF fetch_pressed \/ r.load_trigger # <<>>
        THEN IF e.ticker.err
             THEN [Msg(r, "fetch_error") EXCEPT !.load_trigger = <<>>]
             ELSE [r EXCEPT
                     !.ticker_data = <<[price |-> e.ticker.price,
                                        exps |-> e.ticker.exps,
                                        ticker |-> r.ticker_input_val]>>,
                     !.strikes_data = <<>>,
                     !.load_trigger = IF fetch_pressed THEN <<>> ELSE @]
        ELSE r

\* Lines 277-290: the two expiry selectboxes.
ExpirySelect(r) ==
    LET exps == r.ticker_data[1].exps
        loaded == r.load_trigger
        l_idx == IF loaded # <<>> /\ Contains(exps, loaded[1].long_exp)
                 THEN IndexOf(exps, loaded[1].long_exp)
                 ELSE Len(exps)
        s_idx == IF loaded # <<>> /\ Contains(exps, loaded[1].short_exp)
                 THEN IndexOf(exps, loaded[1].short_exp)
                 ELSE IF Len(exps) > 1 THEN 2 ELSE 1
        wl == Selectbox(r.w_long_exp, exps, l_idx)
        ws == Selectbox(r.w_short_exp, exps, s_idx)
    IN  [Shown(r, "ticker") EXCEPT
            !.price = r.ticker_data[1].price,
            !.w_long_exp = wl, !.w_short_exp = ws,
            !.long_exp = wl[1].val, !.short_exp = ws[1].val]

\* Lines 296-312.  e.l_chain and e.s_chain are what fetch_option_chain_data
\* returns.  min() of an empty strike list raises ValueError, outside any
\* try: the run ends there, after the chain cache was written.
StrikeLoading(r, ev, e) ==
    LET loaded == r.load_trigger
        price == r.ticker_data[1].price
    IN  IF ev.kind = "load_strikes" \/ loaded # <<>>
        THEN IF e.l_chain.err \/ e.s_chain.err THEN Msg(r, "chain_error")
             ELSE
             LET cached == [r EXCEPT !.chain_cache =
                               [l |-> <<e.l_chain.chain>>, s |-> <<e.s_chain.chain>>]]
                 strikes_l == StrikesOf(e.l_chain.chain)
                 strikes_s == StrikesOf(e.s_chain.chain)
             IN  IF strikes_l = <<>> \/ strikes_s = <<>>
                 THEN [cached EXCEPT !.status = "ValueError"]
                 ELSE [cached EXCEPT !.strikes_data =
                         <<[long_exp |-> r.long_exp, short_exp |-> r.short_exp,
                            strikes_l |-> strikes_l, strikes_s |-> strikes_s,
                            def_l |-> IF loaded # <<>>
                                      THEN NearestStrike(strikes_l, 100 * loaded[1].long_strike)
                                      ELSE NearestStrike(strikes_l, LongTarget100(price)),
                            def_s |-> IF loaded # <<>>
                                      THEN NearestStrike(strikes_s, 100 * loaded[1].short_strike)
                                      ELSE NearestStrike(strikes_s, ShortTarget100(price))]>>]
        ELSE r

\* Line 314.
ClearLoadTrigger(r) ==
    IF r.status = "running" /\ r.load_trigger # <<>>
    THEN [r EXCEPT !.load_trigger = <<>>]
    ELSE r

\* Rows of a cached chain with the strike: chain[chain['strike'] == strike].
RowsAt(cache, strike) ==
    IF cache = <<>> THEN <<>>
    ELSE SelectSeq(cache[1], LAMBDA row : row.strike = strike)

\* Lines 316-364.  .iloc[0] of an empty selection raises IndexError, outside
\* any try.  e.phi_l and e.phi_s are the values of norm.cdf(d1) for the legs.
StrikeSection(r, ev, e) ==
    IF r.status # "running" \/ r.strikes_data = <<>> THEN r
    ELSE
    LET s_data == r.strikes_data[1]
        wl == Selectbox(r.w_long_strike, s_data.strikes_l,
                        IndexOf(s_data.strikes_l, s_data.def_l))
        ws == Selectbox(r.w_short_strike, s_data.strikes_s,
                        IndexOf(s_data.strikes_s, s_data.def_s))
        long_strike == wl[1].val
        short_strike == ws[1].val
        shown == [Shown(r, "strikes") EXCEPT
                     !.w_long_strike = wl, !.w_short_strike = ws,
                     !.long_strike = long_strike, !.short_strike = short_strike]
        l_rows == RowsAt(r.chain_cache.l, long_strike)
        s_rows == RowsAt(r.chain_cache.s, short_strike)
        analysed ==
            IF ev.kind = "analyze_auto" /\ r.chain_cache.l # <<>> /\ r.chain_cache.s # <<>>
            THEN IF l_rows = <<>> \/ s_rows = <<>>
                 THEN [shown EXCEPT !.status = "IndexError"]
                 ELSE [shown EXCEPT
                         !.prem_l = get_price(l_rows[1]),
                         !.prem_s = get_bid(s_rows[1]),
                         !.T_l_days = r.long_exp, !.T_s_days = r.short_exp,
                         !.delta_l = calculate_greeks(r.long_exp,
                                        GetOr0(l_rows[1].impliedVolatility), e.phi_l),
                         !.delta_s = calculate_greeks(r.short_exp,
                                        GetOr0(s_rows[1].impliedVolatility), e.phi_s),
                         !.is_ready = TRUE]
            ELSE shown
    IN  IF analysed.status # "running" THEN analysed
        ELSE [analysed EXCEPT
                !.long_strike_val = analysed.long_strike,
                !.short_strike_val = analysed.short_strike,
                !.prem_l_val = analysed.prem_l,
                !.prem_s_val = analysed.prem_s]

AutoBranch(r, ev, e) ==
    LET fetched == TickerFetch(Shown(r, "auto"), ev, e)
    IN  IF fetched.ticker_data = <<>> THEN fetched
        ELSE StrikeSection(
                 ClearLoadTrigger(StrikeLoading(ExpirySelect(fetched), ev, e)),
                 ev, e)

\* Lines 369-471.
ReportSection(r) ==
    IF r.status = "running" /\ r.is_ready
    THEN [r EXCEPT !.report =
            AnalysisReport(r.manual_mode, r.price, r.long_strike, r.prem_l,
                           r.short_strike, r.prem_s, r.delta_l, r.delta_s,
                           r.T_l_days, r.T_s_days)]
    ELSE r

\* A run that reaches the end of the script: the state of every widget it did
\* not render is dropped, and a dropped ticker_input_val is set again to its
\* default by line 158 of the next run.
EndOfRun(r) ==
    IF r.status # "running" THEN r
    ELSE [r EXCEPT
            !.status = "done",
            !.ticker_input_val = IF "auto" \in r.screen THEN @ ELSE DefaultTicker,
            !.m_state = IF "manual" \in r.screen THEN @ ELSE <<>>,
            !.w_long_exp = IF "ticker" \in r.screen THEN @ ELSE <<>>,
            !.w_short_exp = IF "ticker" \in r.screen THEN @ ELSE <<>>,
            !.w_long_strike = IF "strikes" \in r.screen THEN @ ELSE <<>>,
            !.w_short_strike = IF "strikes" \in r.screen THEN @ ELSE <<>>]

\* One run of the script, from session s, for event ev, with the outside
\* world answering e.
Script(s, ev, e) ==
    LET side == Sidebar(ApplyEvent(RunStart(s), ev), ev, e)
        main == IF side.status # "running" THEN side
                ELSE IF side.manual_mode THEN ManualBranch(side, ev)
                ELSE AutoBranch(side, ev, e)
    IN  EndOfRun(ReportSection(main))

\* The session after a run is the run's record without the locals.
Commit(r) ==
    /\ manual_mode' = r.manual_mode
    /\ ticker_input_val' = r.ticker_input_val
    /\ ticker_data' = r.ticker_data
    /\ strikes_data' = r.strikes_data
    /\ load_trigger' = r.load_trigger
    /\ chain_cache' = r.chain_cache
    /\ long_strike_val' = r.long_strike_val
    /\ short_strike_val' = r.short_strike_val
    /\ prem_l_val' = r.prem_l_val
    /\ prem_s_val' = r.prem_s_val
    /\ m_state' = r.m_state
    /\ w_long_exp' = r.w_long_exp
    /\ w_short_exp' = r.w_short_exp
    /\ w_long_strike' = r.w_long_strike
    /\ w_short_strike' = r.w_short_strike
    /\ status' = r.status
    /\ screen' = r.screen
    /\ messages' = r.messages
    /\ sheet_write' = r.sheet_write
    /\ report' = r.report

\* The same, of the current state.
InState(r) ==
    /\ manual_mode = r.manual_mode
    /\ ticker_input_val = r.ticker_input_val
    /\ ticker_data = r.ticker_data
    /\ strikes_data = r.strikes_data
    /\ load_trigger = r.load_trigger
    /\ chain_cache = r.chain_cache
    /\ long_strike_val = r.long_strike_val
    /\ short_strike_val = r.short_strike_val
    /\ prem_l_val = r.prem_l_val
    /\ prem_s_val = r.prem_s_val
    /\ m_state = r.m_state
    /\ w_long_exp = r.w_long_exp
    /\ w_short_exp = r.w_short_exp
    /\ w_long_strike = r.w_long_strike
    /\ w_short_strike = r.w_short_strike
    /\ status = r.status
    /\ screen = r.screen
    /\ messages = r.messages
    /\ sheet_write = r.sheet_write
    /\ report = r.report

(***************************************************************************)
(* The outside world.  A universe U gives the answers the collaborators   *)
(* may return and the values the user may type:                            *)
(*   tickers         ticker symbols the user types                         *)
(*   ticker_results  results of fetch_ticker_info                          *)
(*   chain_pairs     results of the two calls of fetch_option_chain_data   *)
(*   deltas          values of norm.cdf(d1)                                *)
(*   sheet_rows      rows (or exception) a cloud load reads                *)
(*   slots           slots the user saves to, within 1..NumSlots           *)
(*   manual          values of the manual-mode inputs                      *)
(***************************************************************************)
NumSlots == 5

TickerError == [err |-> TRUE]
TickerOk(price, exps) == [err |-> FALSE, price |-> price, exps |-> exps]
ChainError == [err |-> TRUE]
ChainOk(chain) == [err |-> FALSE, chain |-> chain]

Quote(strike, ask, bid, lastPrice, iv) ==
    [strike |-> strike, ask |-> ask, bid |-> bid, lastPrice |-> lastPrice,
     impliedVolatility |-> iv]

\* The answers a run for event kind can consume; an answer no step of the run
\* reads is fixed, so that it is not enumerated.
NoSheet == [kind |-> "unused"]

SaveAnswers(U) ==
    {[kind |-> "conn_error"], [kind |-> "update_error"]}
        \cup {[kind |-> "ok", slot |-> s] : s \in U.slots}

LoadAnswers(U) == {[kind |-> "conn_error"]} \cup U.sheet_rows

\* Line 300 reads only "err1 or err2": one failing pair stands for all.
ChainPairs(results) ==
    {[l |-> ChainError, s |-> ChainError]}
        \cup {[l |-> a, s |-> b] : a, b \in {c \in results : ~c.err}}

\* Both fetches return the same chain: both legs are on one expiry and the
\* second call of fetch_option_chain_data is answered by st.cache_data.
SameChainPairs(results) == {[l |-> c, s |-> c] : c \in results}

NoChains == {[l |-> ChainError, s |-> ChainError]}

\* The answers a run from session s for event kind can consume.  An answer no
\* step of the run reads is fixed, so that it is not enumerated: the sheet
\* answers only a save or a load; the ticker is fetched only in auto mode, on
\* "fetch" or with a load trigger; the chains are fetched only in auto mode,
\* on "load_strikes" or with a load trigger that a failed ticker fetch has
\* not cleared; the Greeks are computed only on "analyze_auto".
EnvSet(U, s, kind) ==
    LET auto == IF kind = "toggle" THEN s.manual_mode ELSE ~s.manual_mode
        fetch == auto /\ (kind = "fetch" \/ s.load_trigger # <<>>)
        sheets == IF kind = "save" THEN SaveAnswers(U)
                  ELSE IF kind = "load" THEN LoadAnswers(U)
                  ELSE {NoSheet}
        tickers == IF fetch THEN U.ticker_results ELSE {TickerError}
        phis == IF kind = "analyze_auto" THEN U.deltas ELSE {0}
        LoadsChains(tk) ==
            auto /\ (kind = "load_strikes"
                      \/ (s.load_trigger # <<>> /\ ~(fetch /\ tk.err)))
    IN  {[sheet |-> sh, ticker |-> x.tk, l_chain |-> x.ch.l, s_chain |-> x.ch.s,
          phi_l |-> pl, phi_s |-> ps] :
            sh \in sheets, pl \in phis, ps \in phis,
            x \in UNION {[tk : {tk},
                          ch : IF LoadsChains(tk) THEN U.chain_pairs ELSE NoChains] :
                         tk \in tickers}}

Event(kind) == [kind |-> kind, arg |-> 0]
EventArg(kind, arg) == [kind |-> kind, arg |-> arg]

Run(U, ev) == \E e \in EnvSet(U, Session, ev.kind) : Commit(Script(Session, ev, e))

Interactive == status # "rerun"

(***************************************************************************)
(* Actions: one per UI event, each a whole run of the script.              *)
(***************************************************************************)
ToggleManual(U) == Interactive /\ Run(U, Event("toggle"))

SelectSlot(U) == Interactive /\ Run(U, Event("select_slot"))

SaveToCloud(U) == Interactive /\ Run(U, Event("save"))

LoadFromCloud(U) == Interactive /\ Run(U, Event("load"))

\* st.rerun(): the script runs again at once, with no event.
Rerun(U) == status = "rerun" /\ Run(U, Event("rerun"))

EditTicker(U) ==
    /\ Interactive /\ "auto" \in screen
    /\ \E tk \in U.tickers \ {ticker_input_val} : Run(U, EventArg("edit_ticker", tk))

FetchData(U) == Interactive /\ "auto" \in screen /\ Run(U, Event("fetch"))

SelectLongExpiry(U) ==
    /\ Interactive /\ "ticker" \in screen
    /\ \E i \in 1..Len(w_long_exp[1].opts) :
          /\ w_long_exp[1].opts[i] # w_long_exp[1].val
          /\ Run(U, EventArg("select_long_exp", w_long_exp[1].opts[i]))

SelectShortExpiry(U) ==
    /\ Interactive /\ "ticker" \in screen
    /\ \E i \in 1..Len(w_short_exp[1].opts) :
          /\ w_short_exp[1].opts[i] # w_short_exp[1].val
          /\ Run(U, EventArg("select_short_exp", w_short_exp[1].opts[i]))

LoadStrikes(U) == Interactive /\ "ticker" \in screen /\ Run(U, Event("load_strikes"))

SelectLongStrike(U) ==
    /\ Interactive /\ "strikes" \in screen
    /\ \E i \in 1..Len(w_long_strike[1].opts) :
          /\ w_long_strike[1].opts[i] # w_long_strike[1].val
          /\ Run(U, EventArg("select_long_strike", w_long_strike[1].opts[i]))

SelectShortStrike(U) ==
    /\ Interactive /\ "strikes" \in screen
    /\ \E i \in 1..Len(w_short_strike[1].opts) :
          /\ w_short_strike[1].opts[i] # w_short_strike[1].val
          /\ Run(U, EventArg("select_short_strike", w_short_strike[1].opts[i]))

AnalyzeAuto(U) == Interactive /\ "strikes" \in screen /\ Run(U, Event("analyze_auto"))

\* One manual-mode input is changed at a time.
EditManual(U) ==
    /\ Interactive /\ "manual" \in screen
    /\ \E f \in DOMAIN ManualDefaults :
          \E v \in U.manual[f] \ {m_state[1][f]} :
              Run(U, EventArg("edit_manual", [m_state[1] EXCEPT ![f] = v]))

AnalyzeManual(U) == Interactive /\ "manual" \in screen /\ Run(U, Event("analyze_manual"))

(***************************************************************************)
(* The application, from its first run, in a small world.                  *)
(***************************************************************************)
\* The quote at strike 120 has no bid (the premium falls back to lastPrice)
\* and an unknown volatility (0).
ChainA ==
    <<Quote(60, 42, 41, 41, 30), Quote(120, 3, 0, 2, 0)>>

MainU ==
    [tickers |-> {DefaultTicker, "SPY"},
     slots |-> {1},
     ticker_results |-> {TickerError, TickerOk(100, <<-1, 400>>)},
     chain_pairs |-> ChainPairs({ChainError, ChainOk(<<>>), ChainOk(ChainA)}),
     deltas |-> {85},
     sheet_rows |-> {[kind |-> "exception"], [kind |-> "short"],
                     [kind |-> "manual", m |-> [ManualDefaults EXCEPT !.m_l_prem = 5]],
                     [kind |-> "auto_truncated", ticker |-> DefaultTicker],
                     [kind |-> "auto", ticker |-> DefaultTicker, long_exp |-> 400,
                      short_exp |-> 30, long_strike |-> 100, short_strike |-> 90]},
     manual |-> [m_ticker |-> {DefaultTicker}, m_price |-> {100},
                 m_l_strike |-> {80}, m_l_prem |-> {25, 5},
                 m_s_strike |-> {130}, m_s_prem |-> {5}]]

\* The session of a new browser tab (lines 155-158) and its first run, which
\* shows the auto-mode page with no ticker data.
FreshSession ==
    [manual_mode |-> FALSE, ticker_input_val |-> DefaultTicker,
     ticker_data |-> <<>>, strikes_data |-> <<>>, load_trigger |-> <<>>,
     chain_cache |-> [l |-> <<>>, s |-> <<>>],
     long_strike_val |-> Absent, short_strike_val |-> Absent,
     prem_l_val |-> Absent, prem_s_val |-> Absent,
     m_state |-> <<>>, w_long_exp |-> <<>>, w_short_exp |-> <<>>,
     w_long_strike |-> <<>>, w_short_strike |-> <<>>,
     status |-> "done", screen |-> {}, messages |-> {},
     sheet_write |-> <<>>, report |-> NoReport]

NoAnswer ==
    [sheet |-> NoSheet, ticker |-> TickerError, l_chain |-> ChainError,
     s_chain |-> ChainError, phi_l |-> 0, phi_s |-> 0]

FirstRun == Script(FreshSession, Event("rerun"), NoAnswer)

Init == InState(FirstRun)

Next ==
    \/ ToggleManual(MainU)
    \/ SelectSlot(MainU)
    \/ SaveToCloud(MainU)
    \/ LoadFromCloud(MainU)
    \/ Rerun(MainU)
    \/ EditTicker(MainU)
    \/ FetchData(MainU)
    \/ SelectLongExpiry(MainU)
    \/ SelectShortExpiry(MainU)
    \/ LoadStrikes(MainU)
    \/ SelectLongStrike(MainU)
    \/ SelectShortStrike(MainU)
    \/ AnalyzeAuto(MainU)
    \/ EditManual(MainU)
    \/ AnalyzeManual(MainU)

Spec == Init /\ [][Next]_vars

(***************************************************************************)
(* Manual mode alone: the payoff engine on the numbers the user types.    *)
(***************************************************************************)
MaxPriceK == 2
MaxStrikeK == 5
MaxPremiumK == 6

PayoffU ==
    [tickers |-> {DefaultTicker}, slots |-> {1}, ticker_results |-> {},
     chain_pairs |-> {}, deltas |-> {}, sheet_rows |-> {},
     manual |-> [m_ticker |-> {DefaultTicker},
                 m_price |-> {50 * k : k \in 1..MaxPriceK},
                 m_l_strike |-> {80 + 10 * k : k \in 0..MaxStrikeK},
                 m_l_prem |-> {5 * k : k \in 0..MaxPremiumK},
                 m_s_strike |-> {80 + 10 * k : k \in 0..MaxStrikeK},
                 m_s_prem |-> {5 * k : k \in 0..MaxPremiumK}]]

\* The manual-mode page with its default inputs: the first run, then the
\* manual-mode toggle.
InitManual == InState(Script(FirstRun, Event("toggle"), NoAnswer))

NextPayoff ==
    \/ EditManual(PayoffU)
    \/ AnalyzeManual(PayoffU)

SpecPayoff == InitManual /\ [][NextPayoff]_vars

Min2(a, b) == IF a <= b THEN a ELSE b
Max2(a, b) == IF a >= b THEN a ELSE b

\* The rows of the scenario table and the samples of the payoff curve of the
\* report on screen, as (spot, per-share profit) in 1/CurveDen dollars.
ReportPoints ==
    {[spot |-> FMul(report.table[i].p, CurveDen),
      profit |-> FMul(report.table[i].total, CurveDen)] : i \in 1..3}
        \cup {report.curve[i] : i \in 1..CurveSamples}

\* C1 (as claimed): in every scenario row with totalCost > 0 the ROI is the
\* position's dollar profit (per-share total times the contract multiplier)
\* over totalCost, times 100; with the inputs of the example (spot 100, long
\* 80 at 25, short 130 at 5) the short-strike row reports a profit of 3000
\* dollars and an ROI of 150%.
C1_RoiIsDollarProfitOverCost ==
    (report.kind = "report" /\ PyGt(report.total_cost, 0)) =>
        /\ \A i \in 1..3 :
              report.table[i].roi.num * report.total_cost
                  = report.table[i].total * ContractMultiplier * 100
                        * report.table[i].roi.den
        /\ (/\ report.price = 100 /\ report.long_strike = 80
            /\ report.prem_l = 25 /\ report.short_strike = 130
            /\ report.prem_s = 5)
              => /\ report.table[3].total = 3000
                 /\ report.table[3].roi.num = 150 * report.table[3].roi.den

\* C3 (as claimed): profit(p) = -netDebit for every p <= longStrike and
\* profit(p) = shortStrike - longStrike - netDebit for every p >= shortStrike,
\* whatever the order of the strikes.
C3_PlateausAsClaimed ==
    report.kind = "report" =>
        \A pt \in ReportPoints :
            /\ PyLe(pt.spot, report.long_strike * CurveDen)
                  => pt.profit = FMul(FNeg(report.net_debit), CurveDen)
            /\ PyGe(pt.spot, report.short_strike * CurveDen)
                  => pt.profit = FMul(FSub(report.short_strike - report.long_strike,
                                           report.net_debit), CurveDen)

\* C3 (amended): at every scenario spot and curve sample p, profit(p) =
\* -netDebit when p is at or below both strikes, and profit(p) =
\* shortStrike - longStrike - netDebit when p is at or above both strikes.
C3_Plateaus ==
    report.kind = "report" =>
        \A pt \in ReportPoints :
            /\ PyLe(pt.spot, Min2(report.long_strike, report.short_strike) * CurveDen)
                  => pt.profit = FMul(FNeg(report.net_debit), CurveDen)
            /\ PyGe(pt.spot, Max2(report.long_strike, report.short_strike) * CurveDen)
                  => pt.profit = FMul(FSub(report.short_strike - report.long_strike,
                                           report.net_debit), CurveDen)

\* A report of an inverted position (short strike below long strike) with
\* points on both plateaus and points between the strikes.
C3_Witness ==
    /\ report.kind = "report"
    /\ report.short_strike < report.long_strike
    /\ \E pt \in ReportPoints : pt.spot <= report.short_strike * CurveDen
    /\ \E pt \in ReportPoints : pt.spot >= report.long_strike * CurveDen
    /\ \E pt \in ReportPoints :
          /\ pt.spot > report.short_strike * CurveDen
          /\ pt.spot < report.long_strike * CurveDen

MaxQuote == 2

QuoteVals == {Absent, NaN, -1} \cup 0..MaxQuote

PremiumU ==
    [tickers |-> {DefaultTicker}, slots |-> {1},
     ticker_results |-> {TickerOk(100, <<400>>)},
     chain_pairs |-> SameChainPairs({ChainOk(<<Quote(100, a, b, lp, 30)>>) :
                                        a \in QuoteVals, b \in QuoteVals,
                                        lp \in QuoteVals}),
     deltas |-> {85}, sheet_rows |-> {}, manual |-> MainU.manual]

NextPremium ==
    \/ FetchData(PremiumU)
    \/ LoadStrikes(PremiumU)
    \/ AnalyzeAuto(PremiumU)

SpecPremium == Init /\ [][NextPremium]_vars

Usable(v) == v # Absent /\ v # NaN /\ v > 0

ResolvedPremium(primary, lastPrice) ==
    IF Usable(primary) THEN primary
    ELSE IF Usable(lastPrice) THEN lastPrice
    ELSE 0

\* The quote rows an auto-mode analysis on screen has priced.
AnalysedLongRow == RowsAt(chain_cache.l, long_strike_val)[1]
AnalysedShortRow == RowsAt(chain_cache.s, short_strike_val)[1]

\* C2 (as claimed): the premium of a leg is its primary field (ask for the
\* long leg, bid for the short leg) when that is present, not NaN and > 0,
\* otherwise lastPrice when that is present, not NaN and > 0, otherwise 0; so
\* it is never NaN and never negative.
C2_PremiumResolution ==
    (report.kind = "report" /\ ~manual_mode) =>
        /\ report.prem_l = ResolvedPremium(AnalysedLongRow.ask,
                                           AnalysedLongRow.lastPrice)
        /\ report.prem_s = ResolvedPremium(AnalysedShortRow.bid,
                                           AnalysedShortRow.lastPrice)
        /\ report.prem_l # NaN /\ report.prem_l >= 0
        /\ report.prem_s # NaN /\ report.prem_s >= 0
        /\ prem_l_val = report.prem_l /\ prem_s_val = report.prem_s

(***************************************************************************)
(* Greeks that are undefined, in the application.                          *)
(***************************************************************************)
UndefinedGreeks(T_days, row) ==
    calculate_greeks(T_days, GetOr0(row.impliedVolatility), 0) = None

\* C5 (as claimed): when the Greeks of the long leg, the short leg or both
\* are undefined (days to expiry <= 0 or implied volatility <= 0), an
\* auto-mode analysis still produces the report, without the coach box, and
\* does not end in the calculation-error outcome.
C5_UndefinedGreeksOmitCoachOnly ==
    (/\ ~manual_mode /\ report.kind # "none"
     /\ \/ UndefinedGreeks(w_long_exp[1].val, AnalysedLongRow)
        \/ UndefinedGreeks(w_short_exp[1].val, AnalysedShortRow))
        => report.kind = "report" /\ report.coach = <<>>

(***************************************************************************)
(* The coach on every pair of deltas (in hundredths, steps of five).      *)
(***************************************************************************)
DeltaStep == 5

ChainB ==
    <<Quote(60, 42, 41, 41, 30), Quote(120, 3, 2, 2, 25)>>

CoachU ==
    [tickers |-> {DefaultTicker}, slots |-> {1},
     ticker_results |-> {TickerOk(100, <<400>>)},
     chain_pairs |-> SameChainPairs({ChainOk(ChainB)}),
     deltas |-> {d \in 0..100 : d % DeltaStep = 0},
     sheet_rows |-> {}, manual |-> MainU.manual]

NextCoach ==
    \/ FetchData(CoachU)
    \/ LoadStrikes(CoachU)
    \/ AnalyzeAuto(CoachU)

SpecCoach == Init /\ [][NextCoach]_vars

\* C6 (as claimed): the grade is S only if the long delta is >= 0.80 and the
\* short delta lies in the ideal band 0.20..0.45, the band of the "ideal OTM"
\* short-leg message.
C6_GradeSOnlyInIdealBand ==
    (report.kind = "report" /\ report.coach # <<>>) =>
        LET c == report.coach[1].comments
        IN  c.score = "S" =>
                /\ PyGe(c.delta_l, 80)
                /\ PyGe(c.delta_s, 20) /\ PyLe(c.delta_s, 45)
                /\ c.short_delta = "ideal"

(***************************************************************************)
(* Default strike selection alone: every set of 1..MaxChainLen of the     *)
(* NumStrikes strikes from 5 up, delivered in descending order, at spot   *)
(* 10 (targets                                                            *)
(* 6 and 11.5, which 10 * 0.60 and 10 * 1.15 are exactly in binary        *)
(* floating point).                                                       *)
(***************************************************************************)
NumStrikes == 8
MaxChainLen == 4

StrikeVals == {4 + k : k \in 1..NumStrikes}

RECURSIVE Descending(_)
Descending(S) ==
    IF S = {} THEN <<>>
    ELSE LET m == CHOOSE x \in S : \A y \in S : y <= x
         IN  <<Quote(m, 1, 1, 1, 30)>> \o Descending(S \ {m})

StrikeU ==
    [tickers |-> {DefaultTicker}, slots |-> {1},
     ticker_results |-> {TickerOk(10, <<400>>)},
     chain_pairs |-> SameChainPairs({ChainOk(Descending(S)) :
                                        S \in {X \in SUBSET StrikeVals :
                                                 Cardinality(X) \in 1..MaxChainLen}}),
     deltas |-> {85}, sheet_rows |-> {}, manual |-> MainU.manual]

NextStrike ==
    \/ FetchData(StrikeU)
    \/ LoadStrikes(StrikeU)

SpecStrike == Init /\ [][NextStrike]_vars

IsAscendingUnique(seq) == \A i \in 1..(Len(seq) - 1) : seq[i] < seq[i + 1]

SeqRange(seq) == {seq[i] : i \in 1..Len(seq)}

ChainStrikeSet(cache) == {cache[1][i].strike : i \in 1..Len(cache[1])}

\* k is a member of strikes at minimal distance from target100 / 100, and
\* the lowest such member.
IsNearestLowest(k, strikes, target100) ==
    /\ k \in SeqRange(strikes)
    /\ \A x \in SeqRange(strikes) :
          /\ KeyDist(k, target100) <= KeyDist(x, target100)
          /\ KeyDist(k, target100) = KeyDist(x, target100) => k <= x

\* C7: the strike lists stored by a strike load are the ascending unique
\* strikes of the fetched chains, and the default long (short) strike is a
\* member of its list at minimal absolute distance from spot * 0.60
\* (spot * 1.15), the lower strike when two are equidistant.
C7_DefaultStrikeIsNearestLowest ==
    strikes_data # <<>> =>
        LET d == strikes_data[1]
            price == ticker_data[1].price
        IN  /\ IsAscendingUnique(d.strikes_l) /\ IsAscendingUnique(d.strikes_s)
            /\ SeqRange(d.strikes_l) = ChainStrikeSet(chain_cache.l)
            /\ SeqRange(d.strikes_s) = ChainStrikeSet(chain_cache.s)
            /\ IsNearestLowest(d.def_l, d.strikes_l, LongTarget100(price))
            /\ IsNearestLowest(d.def_s, d.strikes_s, ShortTarget100(price))

\* A strike load from a chain that is not in ascending order, with two
\* strikes equidistant from the long target and two from the short target.
C7_Witness ==
    /\ strikes_data # <<>>
    /\ Len(chain_cache.l[1]) > 1
    /\ chain_cache.l[1][1].strike > chain_cache.l[1][2].strike
    /\ LET d == strikes_data[1]
           price == ticker_data[1].price
       IN  /\ \E x \in SeqRange(d.strikes_l) \ {d.def_l} :
                  KeyDist(x, LongTarget100(price))
                      = KeyDist(d.def_l, LongTarget100(price))
           /\ \E x \in SeqRange(d.strikes_s) \ {d.def_s} :
                  KeyDist(x, ShortTarget100(price))
                      = KeyDist(d.def_s, ShortTarget100(price))

(***************************************************************************)
(* An empty chain, in the application.                                    *)
(***************************************************************************)
\* C8 (as claimed): a chain fetch that succeeds with no strikes does not end
\* the run in an unhandled exception, and does not leave the stored strike
\* data and the stored chains out of step.
C8_EmptyStrikeSetIsReported ==
    /\ status # "ValueError"
    /\ (strikes_data # <<>> /\ chain_cache.l # <<>> /\ chain_cache.s # <<>>) =>
          /\ SeqRange(strikes_data[1].strikes_l) = ChainStrikeSet(chain_cache.l)
          /\ SeqRange(strikes_data[1].strikes_s) = ChainStrikeSet(chain_cache.s)

(***************************************************************************)
(* The time-to-expiry tier on every number of days 0..MaxDays.            *)
(***************************************************************************)
MaxDays == 370

DaysU ==
    [tickers |-> {DefaultTicker}, slots |-> {1},
     ticker_results |-> {TickerOk(100, <<d>>) : d \in 0..MaxDays},
     chain_pairs |-> SameChainPairs({ChainOk(ChainB)}),
     deltas |-> {85}, sheet_rows |-> {}, manual |-> MainU.manual]

NextDays ==
    \/ FetchData(DaysU)
    \/ LoadStrikes(DaysU)
    \/ AnalyzeAuto(DaysU)

SpecDays == Init /\ [][NextDays]_vars

ClaimedDaysTier(days) ==
    IF days >= 365 THEN "year_plus"
    ELSE IF days >= 180 THEN "half_year_plus"
    ELSE "short"

TierRank(tier) ==
    IF tier = "year_plus" THEN 2 ELSE IF tier = "half_year_plus" THEN 1 ELSE 0

\* C9 (as claimed): the long-leg expiry tier is the lowest for days < 180,
\* the middle one for 180 <= days <= 364 and the highest for days >= 365;
\* and no smaller number of days has a higher tier.
C9_DaysTierBoundaries ==
    (report.kind = "report" /\ report.coach # <<>>) =>
        LET c == report.coach[1].comments
        IN  /\ c.long_days = ClaimedDaysTier(c.days_l)
            /\ \A d \in 1..c.days_l :
                  TierRank(LongDaysTier(d)) <= TierRank(c.long_days)

(***************************************************************************)
(* Restoring a saved position, in the application.                        *)
(***************************************************************************)
\* The run that st.rerun() starts after a slot load, when neither the ticker
\* fetch nor the chain fetches report an error.
RestoringRun ==
    /\ load_trigger # <<>> /\ ~manual_mode /\ status = "rerun"
    /\ "fetch_error" \notin messages' /\ "chain_error" \notin messages'

DefaultsAreNearestSaved ==
    /\ strikes_data' # <<>>
    /\ IsNearestLowest(strikes_data'[1].def_l, strikes_data'[1].strikes_l,
                       load_trigger[1].long_strike * 100)
    /\ IsNearestLowest(strikes_data'[1].def_s, strikes_data'[1].strikes_s,
                       load_trigger[1].short_strike * 100)

\* C10 (as claimed): in the run after an auto record is loaded, if the
\* ticker and both chains are fetched without error, the default strikes
\* stored are the available strikes nearest to the saved strikes (the lower
\* on ties) and load_trigger is cleared by the end of the run.
C10_LoadRestoresSavedStrikes ==
    [][RestoringRun => (DefaultsAreNearestSaved /\ load_trigger' = <<>>)]_vars

\* The same, for runs that do not stop at line 309 or 310.
C10_ExceptOnEmptyChains ==
    [][(RestoringRun /\ status' # "ValueError")
          => (DefaultsAreNearestSaved /\ load_trigger' = <<>>)]_vars

(***************************************************************************)
(* The cached chains and the selected expiries, in the application.       *)
(* A strike load writes the chain cache and, in the same run, the two     *)
(* expiries it fetched the chains for into strikes_data (line 312).       *)
(***************************************************************************)
\* C11 (as claimed): whenever an auto-mode analysis runs, the cached chains
\* it reads the premiums and volatilities from were fetched for the long and
\* short expiries now selected, the ones the times to expiry come from.
C11_AnalysedChainsMatchSelectedExpiries ==
    (~manual_mode /\ report.kind # "none") =>
        /\ strikes_data # <<>>
        /\ strikes_data[1].long_exp = w_long_exp[1].val
        /\ strikes_data[1].short_exp = w_short_exp[1].val

(***************************************************************************)
(* Cloud saves after an analysis: the runs that follow an auto-mode       *)
(* analysis when only the slot is changed or the save button is pressed,  *)
(* so that ticker, expiries and strikes stay as analysed.                 *)
(***************************************************************************)
SaveU ==
    [PremiumU EXCEPT
        !.slots = 1..NumSlots,
        !.chain_pairs =
            SameChainPairs({ChainOk(<<Quote(100, a, b, lp, 30)>>) :
                               a \in 0..MaxQuote, b \in 0..MaxQuote,
                               lp \in 0..MaxQuote})]

\* The records of the runs for an event of the given kind from the sessions S.
AfterRun(S, U, kind) ==
    UNION {{Script(s, Event(kind), e) : e \in EnvSet(U, s, kind)} : s \in S}

\* Fetch, load strikes, analyse: the sessions that show a report.
AnalysedSessions(U) ==
    {r \in AfterRun(AfterRun(AfterRun({FirstRun}, U, "fetch"),
                             U, "load_strikes"), U, "analyze_auto") :
        r.report.kind = "report"}

InitAnalysed == \E r \in AnalysedSessions(SaveU) : InState(r)

NextSave ==
    \/ SelectSlot(SaveU)
    \/ SaveToCloud(SaveU)

SpecSave == InitAnalysed /\ [][NextSave]_vars

\* C12 (as claimed): a cloud save in any run after an auto-mode analysis,
\* with ticker, expiries and strikes unchanged, writes the long and short
\* premiums the analysis resolved from the quotes of the selected strikes.
C12_SaveWritesAnalysedPremiums ==
    sheet_write # <<>> =>
        /\ sheet_write[1].prem_l = get_price(AnalysedLongRow)
        /\ sheet_write[1].prem_s = get_bid(AnalysedShortRow)

\* The save pressed in the run right after the analysis does write them.
C12_SaveRightAfterAnalysis ==
    [][(report.kind = "report" /\ sheet_write' # <<>>) =>
          /\ sheet_write'[1].prem_l = report.prem_l
          /\ sheet_write'[1].prem_s = report.prem_s]_vars

\* C13 (as claimed): a position with a reject comment on either leg (long
\* delta < 0.70 or short delta > 0.60) is never graded S or A.
C13_RejectIsNeverGradedSOrA ==
    (report.kind = "report" /\ report.coach # <<>>) =>
        LET c == report.coach[1].comments
        IN  (c.long_delta = "reject" \/ c.short_delta = "reject")
                => /\ c.score \notin {"S", "A"}
                   /\ report.coach[1].score_icon \notin {"S-rank", "A-rank"}

====
